---- MODULE Spec2Model ----
(***************************************************************************)
(* The three figure scripts of figures/python_code (death_model.py,        *)
(* geo_model.py, pk_model.py) as one sequential state machine.  A run      *)
(* picks a script and the contents of the data directory; every statement  *)
(* of the script that loads, transforms, draws or shows is one step.       *)
(* numpy / matplotlib calls are modelled by what they do to array shapes   *)
(* and values: loadtxt squeezes, linspace pins its end point, scatter      *)
(* ravels both arguments, indexing past a dimension raises.                *)
(***************************************************************************)
EXTENDS Integers, Sequences, FiniteSets, TLC

VARIABLES script, disk, listing, pc, status, env, i, iter, cur, shown, err, reads

vars == <<script, disk, listing, pc, status, env, i, iter, cur, shown, err, reads>>

Scripts == {"death", "geo", "pk"}

-----------------------------------------------------------------------------
(* Bounds of the explored inputs.                                          *)

\* how many files of the data directory differ from the nominal data set
MaxDeviations == 1
\* how many entries the swept directory change_l_gamma lists at most
MaxSweep == 2

-----------------------------------------------------------------------------
(* Program constants.                                                      *)

Threshold == 8
NObs == 15
NTrials == 100
NDeathTraces == 11
NDeathCols == 6
TotalPk18m == 18700000
TotalPk100k == 100000
TotalGeoSgd == 50000
TotalGeoAce == 85000
LabelHigh == 95
LabelLow == 62
LabelShift == 7

-----------------------------------------------------------------------------
(* The colour cycle pulled at script start and the names given to it.      *)

col == <<"C0", "C1", "C2", "C3", "C4", "C5", "C6", "C7", "C8", "C9">>

\* col[k] with Python's 0-based index
Col(k) == col[k + 1]

Scol == Col(0)
Acol == Col(3)
Mcol == Col(6)
Mcol2 == Col(5)

-----------------------------------------------------------------------------
(* Files.  A file is missing, malformed, or a rows x cols table of         *)
(* numbers; pat selects its numeric content.                               *)

File(rows, cols, pat) == [kind |-> "ok", rows |-> rows, cols |-> cols, pat |-> pat]
Missing == [kind |-> "missing", rows |-> 0, cols |-> 0, pat |-> 0]
Malformed == [kind |-> "malformed", rows |-> 0, cols |-> 0, pat |-> 0]

DeathUtilFiles == {"death_model/simpledeath_1d_util.txt"}
DeathTraceFiles == {"death_model/simpledeath_traces.txt"}
GeoTraceFiles == {"geo_model/sgd_traces.txt", "geo_model/ace_traces.txt"}
PkUtilFiles ==
    {"pk_model/ace_utils_18m.txt", "pk_model/sgd_m1_utils_18m.txt",
     "pk_model/muller_J1_utils_18m.txt", "pk_model/muller_J2_utils_18m.txt",
     "pk_model/ace_utils_ph2_18m.txt", "pk_model/sgd_utils_ph2_18m.txt",
     "pk_model/muller_J1_utils_ph2_18m.txt", "pk_model/muller_J2_utils_ph2_18m.txt",
     "pk_model/init_utils.txt", "pk_model/unif_utils.txt"}
PkTraceFiles ==
    {"pk_model/sgd_m1_trace_18m.txt", "pk_model/ace_trace_18m.txt",
     "pk_model/sgd_m1_trace_first100k.txt", "pk_model/sgd_m10_trace_18m.txt",
     "pk_model/sgd_m100_trace_18m.txt"}
PkDesignFiles ==
    {"pk_model/ace_designs_18m.txt", "pk_model/sgd_designs_18m.txt",
     "pk_model/muller_J1_designs_18m.txt", "pk_model/ace_designs_ph2_18m.txt",
     "pk_model/sgd_designs_ph2_18m.txt", "pk_model/muller_J1_designs_ph2_18m.txt"}

FilesOf(s) ==
    CASE s = "death" -> DeathUtilFiles \cup DeathTraceFiles
      [] s = "geo" -> GeoTraceFiles
      [] s = "pk" -> PkUtilFiles \cup PkTraceFiles \cup PkDesignFiles

AllFiles == FilesOf("death") \cup FilesOf("geo") \cup FilesOf("pk")

\* the data set the scripts were written for
Nominal(f) ==
    CASE f \in DeathUtilFiles -> File(3, 2, 0)
      [] f \in DeathTraceFiles -> File(NDeathTraces, 3, 0)
      [] f \in GeoTraceFiles -> File(3, 4, 0)
      [] f \in PkUtilFiles -> File(3, 1, 0)
      [] f \in PkTraceFiles -> File(3, 4, 0)
      [] f \in PkDesignFiles -> File(NTrials, NObs, 0)

\* what a file may be instead
Alternatives(f) ==
    {Missing, Malformed} \cup
    CASE f \in DeathUtilFiles -> {File(3, 1, 0), File(1, 2, 0), File(3, 3, 0), File(1, 1, 0)}
      [] f \in DeathTraceFiles ->
            {File(NDeathTraces - 1, 3, 0), File(NDeathTraces + 1, 3, 0),
             File(NDeathTraces, 1, 0), File(1, NDeathTraces, 0), File(1, 1, 0)}
      [] f \in GeoTraceFiles \cup PkTraceFiles ->
            {File(3, 1, 0), File(1, 4, 0), File(2, 2, 0), File(4, 5, 0)}
      [] f \in PkUtilFiles -> {File(1, 1, 0), File(2, 2, 0), File(4, 1, 1)}
      [] f \in PkDesignFiles ->
            {File(NTrials, NObs, 1),
             File(NTrials + 50, NObs - 5, 0), File(NTrials - 50, 2 * NObs, 1),
             File(NTrials * NObs, 1, 0), File(NTrials, NObs - 1, 0)}

\* entries the swept directory may list
SweepEntries ==
    {File(3, 2, 0), File(4, 2, 1), File(3, 1, 0), File(1, 2, 0), File(3, 3, 0),
     Malformed, Missing}

NominalDisk == [f \in AllFiles |-> Nominal(f)]

\* every data directory that differs from the nominal one in at most n files
\* read by script s
RECURSIVE Deviated(_, _)
Deviated(s, n) ==
    IF n = 0 THEN {NominalDisk}
    ELSE LET prev == Deviated(s, n - 1)
         IN  prev \cup UNION {UNION {{[d EXCEPT ![f] = a] : a \in Alternatives(f)}
                                       : f \in FilesOf(s)} : d \in prev}

Disks(s) == Deviated(s, MaxDeviations)

RECURSIVE SeqsUpTo(_, _)
SeqsUpTo(S, n) ==
    IF n = 0 THEN {<<>>}
    ELSE LET prev == SeqsUpTo(S, n - 1)
         IN  prev \cup {Append(q, e) : q \in {p \in prev : Len(p) = n - 1}, e \in S}

\* os.listdir: the entries in the order the platform lists them, or no directory
Listings(s) ==
    IF s = "geo"
    THEN {[exists |-> TRUE, entries |-> q] : q \in SeqsUpTo(SweepEntries, MaxSweep)}
         \cup {[exists |-> FALSE, entries |-> <<>>]}
    ELSE {[exists |-> TRUE, entries |-> <<>>]}

-----------------------------------------------------------------------------
(* Arrays.  A loaded array keeps its shape, the file it came from and the  *)
(* block of the script that loaded it.                                     *)

\* np.loadtxt squeezes: a 1 x 1 table is 0-d, one row or one column is 1-d
LoadShape(d) ==
    IF d.rows = 1 /\ d.cols = 1 THEN <<>>
    ELSE IF d.rows = 1 THEN <<d.cols>>
    ELSE IF d.cols = 1 THEN <<d.rows>>
    ELSE <<d.rows, d.cols>>

LoadFails(d) == d.kind # "ok"

Loaded(d, f, b) ==
    [shape |-> LoadShape(d), rows |-> d.rows, cols |-> d.cols, pat |-> d.pat,
     file |-> f, block |-> b]

Ndim(a) == Len(a.shape)

RECURSIVE Prod(_)
Prod(q) == IF q = <<>> THEN 1 ELSE Head(q) * Prod(Tail(q))

\* np.size
Size(a) == Prod(a.shape)

\* the values a design file holds: row r, column c (0-based) of content pat
DesignVals == <<0, 7, 8, 9, 24>>
Cell(a, r, c) == DesignVals[((r * (a.pat + 1) + c * (a.pat + 2) + a.pat) % Len(DesignVals)) + 1]

-----------------------------------------------------------------------------
(* The scripts, statement by statement.  block is the figure block (the    *)
(* IMPORT DATA / PLOT FIGURE unit) the statement stands in, fig the        *)
(* show() call, counted from 1, whose figure the statement works for, and  *)
(* jump the statement run next when it is not the following one.           *)

Stmt(op, line, block, fig, var, args, aux) ==
    [op |-> op, line |-> line, block |-> block, fig |-> fig, var |-> var,
     args |-> args, aux |-> aux, jump |-> 0, inloop |-> FALSE]

LoadStmt(var, file, line, block, fig) == Stmt("load", line, block, fig, var, <<>>, file)
ShowStmt(line, block, fig) == Stmt("show", line, block, fig, "", <<>>, "")
LinspaceStmt(var, total, src, how, line, block, fig) ==
    Stmt("linspace", line, block, fig, var, <<src>>, [total |-> total, how |-> how])
PlotStmt(xv, yv, color, div, line, block, fig) ==
    Stmt("plot", line, block, fig, "", <<xv, yv>>, [color |-> color, div |-> div])
ScatterStmt(dv, color, sub, line, block, fig) ==
    Stmt("scatter", line, block, fig, "", <<"x", dv>>, [color |-> color, sub |-> sub])
LabelStmt(dv, color, sub, line, block, fig) ==
    Stmt("labels", line, block, fig, "num_at_8_2", <<dv>>, [color |-> color, sub |-> sub])

DeathProg ==
    << LoadStmt("util_surf", "death_model/simpledeath_1d_util.txt", 19, 1, 1),
       Stmt("plotxy", 23, 1, 1, "", <<"util_surf">>, [color |-> Col(3)]),
       ShowStmt(29, 1, 1),
       LoadStmt("design_traces", "death_model/simpledeath_traces.txt", 33, 2, 2),
       Stmt("plotrows", 37, 2, 2, "", <<"design_traces">>, [n |-> NDeathTraces]),
       ShowStmt(45, 2, 2) >>

GeoProg ==
    << LoadStmt("tr_sgd", "geo_model/sgd_traces.txt", 21, 1, 1),
       LoadStmt("tr_ace", "geo_model/ace_traces.txt", 22, 1, 1),
       Stmt("boxplot", 26, 1, 1, "bp", <<"tr_sgd", "tr_ace">>, [lastcol |-> TRUE]),
       Stmt("facecolor", 29, 1, 1, "bp_cols", <<>>, <<Scol, Acol>>),
       ShowStmt(34, 1, 1),
       LinspaceStmt("x_sgd", TotalGeoSgd, "tr_sgd", "size0", 41, 2, 2),
       LinspaceStmt("x_ace", TotalGeoAce, "tr_ace", "size0", 42, 2, 2),
       PlotStmt("x_sgd", "tr_sgd", Scol, 1, 45, 2, 2),
       PlotStmt("x_ace", "tr_ace", Acol, 1, 46, 2, 2),
       ShowStmt(52, 2, 2),
       Stmt("listdir", 60, 3, 3, "files", <<>>, ""),
       [Stmt("for", 62, 3, 3, "i", <<"files">>, "") EXCEPT !.jump = 16],
       [Stmt("loadi", 64, 3, 3, "x", <<"files">>, "") EXCEPT !.inloop = TRUE],
       [Stmt("scatterxy", 66, 3, 3, "", <<"x">>, "") EXCEPT !.inloop = TRUE],
       [ShowStmt(71, 3, 3) EXCEPT !.inloop = TRUE, !.jump = 12] >>

PkFig2 ==
    << LoadStmt("a", "pk_model/ace_utils_18m.txt", 23, 1, 1),
       LoadStmt("s", "pk_model/sgd_m1_utils_18m.txt", 24, 1, 1),
       LoadStmt("m1", "pk_model/muller_J1_utils_18m.txt", 25, 1, 1),
       LoadStmt("m2", "pk_model/muller_J2_utils_18m.txt", 26, 1, 1),
       LoadStmt("a_ph2", "pk_model/ace_utils_ph2_18m.txt", 28, 1, 1),
       LoadStmt("s_ph2", "pk_model/sgd_utils_ph2_18m.txt", 29, 1, 1),
       LoadStmt("m1_ph2", "pk_model/muller_J1_utils_ph2_18m.txt", 30, 1, 1),
       LoadStmt("m2_ph2", "pk_model/muller_J2_utils_ph2_18m.txt", 31, 1, 1),
       LoadStmt("init", "pk_model/init_utils.txt", 33, 1, 1),
       LoadStmt("unif", "pk_model/unif_utils.txt", 34, 1, 1),
       Stmt("boxplot", 38, 1, 1, "bp",
            <<"m2_ph2", "m1_ph2", "s_ph2", "a_ph2", "m2", "m1", "s", "a", "init">>,
            [lastcol |-> FALSE]),
       Stmt("facecolor", 43, 1, 1, "bp_cols", <<>>,
            <<Mcol2, Mcol, Scol, Acol, Mcol2, Mcol, Scol, Acol, "lightsteelblue">>),
       ShowStmt(48, 1, 1) >>

PkFig3 ==
    << LoadStmt("sgd18", "pk_model/sgd_m1_trace_18m.txt", 56, 2, 3),
       LoadStmt("ace18", "pk_model/ace_trace_18m.txt", 57, 2, 2),
       LinspaceStmt("x_ace18", TotalPk18m, "ace18", "shape1", 60, 2, 2),
       PlotStmt("x_ace18", "ace18", Acol, 1, 61, 2, 2),
       ShowStmt(66, 2, 2),
       LinspaceStmt("x_sgd18", TotalPk18m, "sgd18", "shape1", 68, 2, 3),
       PlotStmt("x_sgd18", "sgd18", Scol, 1, 69, 2, 3),
       ShowStmt(74, 2, 3) >>

PkFig4 ==
    << LoadStmt("d_a18m", "pk_model/ace_designs_18m.txt", 82, 3, 4),
       LoadStmt("d_s18m", "pk_model/sgd_designs_18m.txt", 83, 3, 4),
       LoadStmt("d_m18m", "pk_model/muller_J1_designs_18m.txt", 84, 3, 4),
       LoadStmt("d2_a18m", "pk_model/ace_designs_ph2_18m.txt", 85, 3, 4),
       LoadStmt("d2_s18m", "pk_model/sgd_designs_ph2_18m.txt", 86, 3, 4),
       LoadStmt("d2_m18m", "pk_model/muller_J1_designs_ph2_18m.txt", 87, 3, 4),
       Stmt("buildx", 89, 3, 4, "x", <<>>, ""),
       ScatterStmt("d_s18m", Scol, 1, 96, 3, 4),
       LabelStmt("d_s18m", Scol, 1, 102, 3, 4),
       ScatterStmt("d_a18m", Acol, 2, 111, 3, 4),
       ScatterStmt("d_m18m", Mcol, 3, 119, 3, 4),
       ScatterStmt("d2_s18m", Scol, 4, 130, 3, 4),
       LabelStmt("d2_s18m", Scol, 4, 137, 3, 4),
       ScatterStmt("d2_a18m", Acol, 5, 146, 3, 4),
       ScatterStmt("d2_m18m", Mcol, 6, 155, 3, 4),
       ShowStmt(167, 3, 4) >>

\* figure 5 drawn from the sgd18 array of figure 3 instead of a reload
PkFig5Reuse ==
    << LoadStmt("sgd1_first100k", "pk_model/sgd_m1_trace_first100k.txt", 178, 4, 5),
       LinspaceStmt("x_sgd1_first100k", TotalPk100k, "sgd1_first100k", "shape1", 179, 4, 5),
       LoadStmt("sgd10", "pk_model/sgd_m10_trace_18m.txt", 182, 4, 5),
       LoadStmt("sgd100", "pk_model/sgd_m100_trace_18m.txt", 183, 4, 5),
       LinspaceStmt("x_sgd1", TotalPk18m, "sgd18", "shape1", 185, 4, 5),
       LinspaceStmt("x_sgd10", TotalPk18m, "sgd10", "shape1", 186, 4, 5),
       LinspaceStmt("x_sgd100", TotalPk18m, "sgd100", "shape1", 187, 4, 5),
       PlotStmt("x_sgd1_first100k", "sgd1_first100k", Col(0), 1, 195, 4, 5),
       PlotStmt("x_sgd10", "sgd10", Col(3), 10, 204, 4, 5),
       PlotStmt("x_sgd100", "sgd100", Col(6), 100, 213, 4, 5),
       PlotStmt("x_sgd1", "sgd18", Col(0), 1, 222, 4, 5),
       PlotStmt("x_sgd10", "sgd10", Col(3), 1, 230, 4, 5),
       PlotStmt("x_sgd100", "sgd100", Col(6), 1, 238, 4, 5),
       ShowStmt(244, 4, 5) >>

PkFig5 ==
    << LoadStmt("sgd1_first100k", "pk_model/sgd_m1_trace_first100k.txt", 178, 4, 5),
       LinspaceStmt("x_sgd1_first100k", TotalPk100k, "sgd1_first100k", "shape1", 179, 4, 5),
       LoadStmt("sgd1", "pk_model/sgd_m1_trace_18m.txt", 181, 4, 5),
       LoadStmt("sgd10", "pk_model/sgd_m10_trace_18m.txt", 182, 4, 5),
       LoadStmt("sgd100", "pk_model/sgd_m100_trace_18m.txt", 183, 4, 5),
       LinspaceStmt("x_sgd1", TotalPk18m, "sgd1", "shape1", 185, 4, 5),
       LinspaceStmt("x_sgd10", TotalPk18m, "sgd10", "shape1", 186, 4, 5),
       LinspaceStmt("x_sgd100", TotalPk18m, "sgd100", "shape1", 187, 4, 5),
       PlotStmt("x_sgd1_first100k", "sgd1_first100k", Col(0), 1, 195, 4, 5),
       PlotStmt("x_sgd10", "sgd10", Col(3), 10, 204, 4, 5),
       PlotStmt("x_sgd100", "sgd100", Col(6), 100, 213, 4, 5),
       PlotStmt("x_sgd1", "sgd1", Col(0), 1, 222, 4, 5),
       PlotStmt("x_sgd10", "sgd10", Col(3), 1, 230, 4, 5),
       PlotStmt("x_sgd100", "sgd100", Col(6), 1, 238, 4, 5),
       ShowStmt(244, 4, 5) >>

PkProg == PkFig2 \o PkFig3 \o PkFig4 \o PkFig5

Prog(s) ==
    CASE s = "death" -> DeathProg
      [] s = "geo" -> GeoProg
      [] s = "pk" -> PkProg

-----------------------------------------------------------------------------
(* numpy and matplotlib, as far as the scripts use them.                   *)

\* a rational number n / d
Rat(n, d) == [n |-> n, d |-> d]

\* linspace with endpoint=False: step (stop - start) / num, end point left out
LinspaceOpen(start, stop, num) ==
    [k \in 1..num |-> Rat(start * num + (k - 1) * (stop - start), num)]

\* np.linspace(start, stop, num): num points, step (stop - start) / (num - 1),
\* the last one set to stop when there is more than one
Linspace(start, stop, num) ==
    [k \in 1..num |->
        IF num > 1 /\ k = num THEN Rat(stop, 1)
        ELSE IF num - 1 > 0 THEN Rat(start * (num - 1) + (k - 1) * (stop - start), num - 1)
        ELSE Rat(start, 1)]

\* np.arange(lo, hi)
Arange(lo, hi) == [k \in 1..(hi - lo) |-> lo + k - 1]

\* np.repeat(a, n): every element n times in a row
Repeat(a, n) == [k \in 1..(Len(a) * n) |-> a[((k - 1) \div n) + 1]]

\* a.reshape((r, c)), row-major
Reshape(a, r, c) == [p \in 1..r |-> [q \in 1..c |-> a[(p - 1) * c + q]]]

\* m.transpose()
Transpose(m) == [q \in 1..Len(m[1]) |-> [p \in 1..Len(m) |-> m[p][q]]]

\* x = np.repeat(np.arange(1,16),100).reshape((15,100)).transpose()
BuildX == Transpose(Reshape(Repeat(Arange(1, NObs + 1), NTrials), NObs, NTrials))

\* the values paired by scatter(x, d): both arguments are ravelled row-major,
\* so element (r, c) (0-based) of d meets the element of x at the same flat
\* position
RavelIndex(a, r, c) == r * a.shape[2] + c
XAtFlat(xm, k) == xm.data[(k \div xm.shape[2]) + 1][(k % xm.shape[2]) + 1]
ScatterX(xm, d, r, c) == XAtFlat(xm, RavelIndex(d, r, c))

\* scatter raises unless both arguments have the same number of elements
ScatterFails(xm, d) == Size(xm) # Size(d)

\* the comparison written d >= 8
CountAtLeast(d, c) == Cardinality({r \in 0..(d.shape[1] - 1) : Cell(d, r, c) >= Threshold})

\* np.sum(d > 8, 0)[c] for a 2-d d: the rows of column c (0-based) above the
\* threshold
CountAbove(d, c) == Cardinality({r \in 0..(d.shape[1] - 1) : Cell(d, r, c) > Threshold})

\* np.sum(d > 8, 0): one count per column of a 2-d array, a scalar otherwise
SumAbove(d) ==
    IF Ndim(d) = 2
    THEN [shape |-> <<d.shape[2]>>, data |-> [c \in 1..d.shape[2] |-> CountAbove(d, c - 1)]]
    ELSE [shape |-> <<>>, data |-> <<>>]

\* the label loop: where the count of column k (0-based) is written
LabelX(k) == 10 * k + LabelShift
LabelYOdd(k) == IF k % 2 = 1 THEN LabelHigh ELSE LabelLow
LabelY(k) == IF k % 2 = 0 THEN LabelHigh ELSE LabelLow

\* how many of the n indexings a[0], a[1], ... succeed before one raises
Indexable(a, n) ==
    IF Ndim(a) = 0 THEN 0
    ELSE IF a.shape[1] < n THEN a.shape[1] ELSE n

\* the colour of trace k in death_model: col[i%6+1]
DeathColor(k) == Col((k % NDeathCols) + 1)

\* a plot that leaves the last row out
PlotLinesShort(xa, m) ==
    IF Ndim(m) = 2 THEN (IF xa.shape[1] = m.shape[2] THEN m.shape[1] - 1 ELSE -1)
    ELSE IF xa.shape[1] = Size(m) THEN 1 ELSE -1

\* plt.plot(x, np.transpose(m)): one line per row of m, all in one colour;
\* the number of lines drawn, -1 when the shapes do not fit
PlotLines(xa, m) ==
    IF Ndim(m) = 2 THEN (IF xa.shape[1] = m.shape[2] THEN m.shape[1] ELSE -1)
    ELSE IF xa.shape[1] = Size(m) THEN 1 ELSE -1

\* plt.boxplot(list of vectors): -1 when a vector has two dimensions, one box
\* for the whole list when every entry is a single number, else one box each
BoxCount(vs) ==
    IF \E k \in 1..Len(vs) : Len(vs[k]) = 2 THEN -1
    ELSE IF \A k \in 1..Len(vs) : Len(vs[k]) = 0 THEN 1
    ELSE Len(vs)

\* range(np.size(files)): how many passes the sweep loop makes
RangeShort(a) == Size(a) - 1
RangeSize(a) == Size(a)

\* a[:, -1] and a[:, 0] need two dimensions
ColumnFails(a) == Ndim(a) # 2

\* patches are created in the first colour of the cycle
DefaultFace == Col(0)

\* the colours handed out from the other end of the list
ZipFaceReversed(boxes, cols) ==
    [k \in 1..Len(boxes) |->
        IF k <= Len(cols) THEN [boxes[k] EXCEPT !.face = cols[Len(cols) + 1 - k]]
        ELSE boxes[k]]

\* for patch, color in zip(bp['boxes'], bp_cols): patch.set_facecolor(color)
ZipFace(boxes, cols) ==
    [k \in 1..Len(boxes) |->
        IF k <= Len(cols) THEN [boxes[k] EXCEPT !.face = cols[k]] ELSE boxes[k]]

-----------------------------------------------------------------------------
(* State.                                                                  *)

\* the figure being built: nothing of it is on screen before show()
EmptyFig == [boxes |-> <<>>, lines |-> <<>>, curves |-> <<>>, scatters |-> <<>>, labels |-> <<>>]

NoErr == [line |-> 0, fig |-> 0]

Init ==
    /\ script \in Scripts
    /\ disk \in Disks(script)
    /\ listing \in Listings(script)
    /\ pc = 1
    /\ status = "running"
    /\ env = <<>>
    /\ i = 0
    /\ iter = 0
    /\ cur = EmptyFig
    /\ shown = <<>>
    /\ err = NoErr
    /\ reads = {}

\* the statement about to run
st == Prog(script)[pc]

\* the show() call a statement works for; inside the sweep loop each pass has
\* its own
FigOf(s) == IF s.inloop THEN s.fig + i ELSE s.fig

\* control moves on; running off the end of the script ends it
Goto(target) ==
    /\ pc' = target
    /\ status' = IF target > Len(Prog(script)) THEN "done" ELSE "running"
    /\ err' = err

Advance == Goto(IF st.jump # 0 THEN st.jump ELSE pc + 1)

\* an exception caught and the statement tried again
RaiseSwallowed ==
    /\ pc' = pc
    /\ status' = "running"
    /\ err' = [line |-> st.line, fig |-> FigOf(st)]

\* an exception: nothing catches it, the interpreter exits
Raise ==
    /\ pc' = pc
    /\ status' = "error"
    /\ err' = [line |-> st.line, fig |-> FigOf(st)]

\* the variables a statement reads, with the block that loaded each
Reading(names) ==
    reads' = reads \cup {[block |-> st.block, var |-> v, from |-> env[v].block] : v \in names}

Assign(name, value) == env' = (name :> value) @@ env

At(op) == status = "running" /\ st.op = op

-----------------------------------------------------------------------------
(* One action per kind of statement.                                       *)

\* v = np.loadtxt(file)
Load ==
    /\ At("load")
    /\ IF LoadFails(disk[st.aux])
       THEN Raise /\ UNCHANGED env
       ELSE Advance /\ Assign(st.var, Loaded(disk[st.aux], st.aux, st.block))
    /\ UNCHANGED <<script, disk, listing, i, iter, cur, shown, reads>>

\* plt.show(): the figure built so far goes on screen, the next one starts empty
Show ==
    /\ At("show")
    /\ shown' = Append(shown, [fig |-> FigOf(st), content |-> cur])
    /\ cur' = EmptyFig
    /\ Advance
    /\ UNCHANGED <<script, disk, listing, env, i, iter, reads>>

\* bp = plt.boxplot([...], patch_artist = True)
Boxplot ==
    /\ At("boxplot")
    /\ Reading({st.args[k] : k \in 1..Len(st.args)})
    /\ LET arrs == [k \in 1..Len(st.args) |-> env[st.args[k]]]
           bad == st.aux.lastcol /\ \E k \in 1..Len(arrs) : ColumnFails(arrs[k])
           vs == [k \in 1..Len(arrs) |->
                    IF st.aux.lastcol THEN <<arrs[k].shape[1]>> ELSE arrs[k].shape]
           n == IF bad THEN -1 ELSE BoxCount(vs)
       IN  IF n < 0
           THEN Raise /\ UNCHANGED cur
           ELSE /\ Advance
                /\ cur' = [cur EXCEPT !.boxes =
                       [k \in 1..n |->
                           [data |-> IF n = Len(arrs) THEN <<st.args[k]>> ELSE st.args,
                            pos |-> k, face |-> DefaultFace]]]
    /\ UNCHANGED <<script, disk, listing, env, i, iter, shown>>

\* bp_cols = [...]; for patch, color in zip(bp['boxes'], bp_cols): ...
FaceColor ==
    /\ At("facecolor")
    /\ cur' = [cur EXCEPT !.boxes = ZipFace(cur.boxes, st.aux)]
    /\ Advance
    /\ UNCHANGED <<script, disk, listing, env, i, iter, shown, reads>>

\* x_v = np.linspace(0, total, np.shape(v)[1])   (pk_model)
\* x_v = np.linspace(0, total, np.size(v[0]))    (geo_model)
Rescale ==
    /\ At("linspace")
    /\ Reading({st.args[1]})
    /\ LET a == env[st.args[1]]
           bad == IF st.aux.how = "shape1" THEN Ndim(a) < 2 ELSE Ndim(a) < 1
           num == IF st.aux.how = "shape1" THEN a.shape[2]
                  ELSE IF Ndim(a) = 2 THEN a.shape[2] ELSE 1
       IN  IF bad
           THEN Raise /\ UNCHANGED env
           ELSE /\ Advance
                /\ Assign(st.var, [shape |-> <<num>>, pts |-> Linspace(0, st.aux.total, num),
                                   total |-> st.aux.total, file |-> a.file,
                                   block |-> st.block])
    /\ UNCHANGED <<script, disk, listing, i, iter, cur, shown>>

\* plt.plot(x_v, np.transpose(v), color=..., alpha=...)
Plot ==
    /\ At("plot")
    /\ Reading({st.args[1], st.args[2]})
    /\ LET xa == env[st.args[1]]
           m == env[st.args[2]]
           n == PlotLines(xa, m)
       IN  IF n < 0
           THEN Raise /\ UNCHANGED cur
           ELSE /\ Advance
                /\ cur' = [cur EXCEPT !.lines = @ \o
                       [r \in 1..n |->
                           [file |-> m.file, row |-> r - 1, color |-> st.aux.color,
                            x |-> st.args[1], div |-> st.aux.div]]]
    /\ UNCHANGED <<script, disk, listing, env, i, iter, shown>>

\* plt.plot(util_surf[:,0], util_surf[:,1], color = col[3])
PlotXY ==
    /\ At("plotxy")
    /\ Reading({st.args[1]})
    /\ IF ColumnFails(env[st.args[1]])
       THEN Raise /\ UNCHANGED cur
       ELSE /\ Advance
            /\ cur' = [cur EXCEPT !.curves = Append(@,
                   [file |-> env[st.args[1]].file, xcol |-> 0, ycol |-> 1,
                    color |-> st.aux.color])]
    /\ UNCHANGED <<script, disk, listing, env, i, iter, shown>>

\* for i in range(11): plt.plot(design_traces[i], color = col[i%6+1])
PlotRows ==
    /\ At("plotrows")
    /\ Reading({st.args[1]})
    /\ LET m == env[st.args[1]]
           n == Indexable(m, st.aux.n)
       IN  /\ cur' = [cur EXCEPT !.lines = @ \o
                  [r \in 1..n |->
                      [file |-> m.file, row |-> r - 1, color |-> DeathColor(r - 1),
                       x |-> "", div |-> 1]]]
           /\ IF n < st.aux.n THEN Raise ELSE Advance
    /\ UNCHANGED <<script, disk, listing, env, i, iter, shown>>

\* x = np.repeat(np.arange(1,16),100).reshape((15,100)).transpose()
MakeX ==
    /\ At("buildx")
    /\ Assign(st.var, [shape |-> <<Len(BuildX), Len(BuildX[1])>>, data |-> BuildX,
                       block |-> st.block])
    /\ Advance
    /\ UNCHANGED <<script, disk, listing, i, iter, cur, shown, reads>>

\* plt.subplot(2,3,k); plt.scatter(x, d, s=100, alpha=0.05, color=...)
Scatter ==
    /\ At("scatter")
    /\ Reading({st.args[1], st.args[2]})
    /\ IF ScatterFails(env[st.args[1]], env[st.args[2]])
       THEN Raise /\ UNCHANGED cur
       ELSE /\ Advance
            /\ cur' = [cur EXCEPT !.scatters = Append(@,
                   [sub |-> st.aux.sub, xs |-> st.args[1], ys |-> env[st.args[2]],
                    color |-> st.aux.color])]
    /\ UNCHANGED <<script, disk, listing, env, i, iter, shown>>

\* num_at_8_2 = np.sum(d>8,0)
\* for i in range(15): plt.text(i+0.7, 9.5 or 6.2, num_at_8_2[i], ...)
Labels ==
    /\ At("labels")
    /\ Reading({st.args[1]})
    /\ LET d == env[st.args[1]]
           num == SumAbove(d)
           n == Indexable(num, NObs)
       IN  /\ Assign(st.var, [shape |-> num.shape, data |-> num.data, block |-> st.block])
           /\ cur' = [cur EXCEPT !.labels = @ \o
                  [k \in 1..n |->
                      [sub |-> st.aux.sub, col |-> k - 1, x |-> LabelX(k - 1),
                       y |-> LabelY(k - 1), text |-> num.data[k],
                       color |-> st.aux.color]]]
           /\ IF n < NObs THEN Raise ELSE Advance
    /\ UNCHANGED <<script, disk, listing, i, iter, shown>>

\* files = os.listdir('../data/geo_model/change_l_gamma')
ListDir ==
    /\ At("listdir")
    /\ IF ~listing.exists
       THEN Raise /\ UNCHANGED env
       ELSE /\ Advance
            /\ Assign(st.var, [shape |-> <<Len(listing.entries)>>, block |-> st.block])
    /\ UNCHANGED <<script, disk, listing, i, iter, cur, shown, reads>>

\* for i in range(np.size(files)): the next index, or the end of the loop
For ==
    /\ At("for")
    /\ Reading({st.args[1]})
    /\ IF iter < RangeSize(env[st.args[1]])
       THEN /\ i' = iter
            /\ iter' = iter + 1
            /\ Goto(pc + 1)
       ELSE /\ Goto(st.jump)
            /\ UNCHANGED <<i, iter>>
    /\ UNCHANGED <<script, disk, listing, env, cur, shown>>

\* x = np.loadtxt('../data/geo_model/change_l_gamma/'+str(files[i]))
LoadEntry ==
    /\ At("loadi")
    /\ Reading({st.args[1]})
    /\ IF LoadFails(listing.entries[i + 1])
       THEN Raise /\ UNCHANGED env
       ELSE Advance /\ Assign(st.var, Loaded(listing.entries[i + 1], i, st.block))
    /\ UNCHANGED <<script, disk, listing, i, iter, cur, shown>>

\* plt.scatter(x[:,0], x[:,1])
ScatterXY ==
    /\ At("scatterxy")
    /\ Reading({st.args[1]})
    /\ IF ColumnFails(env[st.args[1]])
       THEN Raise /\ UNCHANGED cur
       ELSE /\ Advance
            /\ cur' = [cur EXCEPT !.scatters = Append(@,
                   [sub |-> 0, xs |-> "x[:,0]", ys |-> env[st.args[1]],
                    color |-> DefaultFace])]
    /\ UNCHANGED <<script, disk, listing, env, i, iter, shown>>

Next ==
    \/ Load
    \/ Show
    \/ Boxplot
    \/ FaceColor
    \/ Rescale
    \/ Plot
    \/ PlotXY
    \/ PlotRows
    \/ MakeX
    \/ Scatter
    \/ Labels
    \/ ListDir
    \/ For
    \/ LoadEntry
    \/ ScatterXY

Spec == Init /\ [][Next]_vars

-----------------------------------------------------------------------------
(* What is on screen and what is drawn.                                    *)

\* the show() calls that have displayed a figure
ShownFigs == {shown[k].fig : k \in 1..Len(shown)}

\* the figures displayed, as drawn
ShownContents == {shown[k].content : k \in 1..Len(shown)}

\* every figure drawn so far, displayed or still being built
Drawn == ShownContents \cup {cur}

Elems(q) == {q[k] : k \in 1..Len(q)}

\* the x-axis arrays built by linspace
Axes == {env[v] : v \in {w \in DOMAIN env : "pts" \in DOMAIN env[w]}}

ExecutedStmt(k) == pc > k \/ (status = "error" /\ pc = k)

-----------------------------------------------------------------------------
(* C1: x-axis rescale.                                                     *)

AxisEnds(a) ==
    /\ Len(a.pts) >= 1
    /\ a.pts[1].n = 0
    /\ a.pts[Len(a.pts)].n = a.total * a.pts[Len(a.pts)].d

\* C1 as stated: whatever the column count of the trace file, a single column
\* included, once the linspace statement has run the x-axis exists, starts at 0
\* and ends at the declared total T.
C1_AsStated ==
    \A k \in 1..Len(Prog(script)) :
        (Prog(script)[k].op = "linspace" /\ ExecutedStmt(k)) =>
            /\ Prog(script)[k].var \in DOMAIN env
            /\ AxisEnds(env[Prog(script)[k].var])

\* C1 (amended): every x-axis that linspace builds has one point per column of
\* its trace file, which then has at least two rows and two columns; its first
\* point is 0 and its last point is the declared total T.  A trace file with a
\* single column (or a single row) is loaded as a 1-d array and the script
\* stops with an error before any x-axis is built for it.
C1_Rescale ==
    /\ \A a \in Axes :
          /\ disk[a.file].rows >= 2
          /\ disk[a.file].cols >= 2
          /\ Len(a.pts) = disk[a.file].cols
          /\ AxisEnds(a)
          /\ a.total \in {TotalPk18m, TotalPk100k, TotalGeoSgd, TotalGeoAce}
    /\ \A k \in 1..Len(Prog(script)) :
          (Prog(script)[k].op = "linspace" /\ ExecutedStmt(k)
              /\ Prog(script)[k].var \notin DOMAIN env) => status = "error"

C1_Witness ==
    /\ script = "pk"
    /\ status = "done"
    /\ "x_sgd1_first100k" \in DOMAIN env
    /\ Len(env["x_sgd1_first100k"].pts) = 5
    /\ env["x_sgd1_first100k"].pts[5] = Rat(TotalPk100k, 1)
    /\ env["x_ace18"].pts[2] = Rat(TotalPk18m, 3)

-----------------------------------------------------------------------------
(* C2: threshold counts.                                                   *)

\* the array scattered in subplot sub of figure f
ScatteredIn(f, sub) == (CHOOSE sc \in Elems(f.scatters) : sc.sub = sub).ys

RECURSIVE SumSeq(_)
SumSeq(q) == IF q = <<>> THEN 0 ELSE Head(q) + SumSeq(Tail(q))

\* C2: every count written over a design scatter (figures 4a and 4d) is the
\* number of rows of that design whose value in the label's column is
\* strictly above 8, the counts of one design add up to at most rows x
\* columns, and a displayed figure has one count for each of the columns
\* 0..14 of both designs.  (Nothing drawn is
\* ever taken back, so the figures are inspected when the script has ended,
\* normally or in an error.)
C2_Counts ==
    status # "running" =>
    \A f \in Drawn :
        /\ \A l \in Elems(f.labels) :
              LET d == ScatteredIn(f, l.sub)
              IN  /\ l.col \in 0..(d.shape[2] - 1)
                  /\ l.text = Cardinality({r \in 0..(d.shape[1] - 1) : Cell(d, r, l.col) > 8})
                  /\ l.text = d.shape[1]
                        - Cardinality({r \in 0..(d.shape[1] - 1) : Cell(d, r, l.col) <= 8})
        /\ \A sub \in {l.sub : l \in Elems(f.labels)} :
              SumSeq([k \in 1..Len(f.labels) |->
                         IF f.labels[k].sub = sub THEN f.labels[k].text ELSE 0])
                 <= Size(ScatteredIn(f, sub))
        /\ f \in ShownContents =>
              \A sub \in {sc.sub : sc \in Elems(f.scatters)} \cap {1, 4} :
                  /\ {l.col : l \in {m \in Elems(f.labels) : m.sub = sub}} = 0..14
                  /\ Cardinality({k \in 1..Len(f.labels) : f.labels[k].sub = sub}) = 15

C2_Witness ==
    /\ status = "done"
    /\ \E f \in ShownContents :
          /\ Len(f.labels) = 2 * NObs
          /\ \E l \in Elems(f.labels) :
                /\ l.text > 0
                /\ l.text < NTrials
                /\ \E r \in 0..(NTrials - 1) : Cell(ScatteredIn(f, l.sub), r, l.col) = 8

-----------------------------------------------------------------------------
(* C3: boxplot colours.                                                    *)

\* the method each colour name of the scripts stands for (Scol, Acol, Mcol,
\* Mcol2, and the literal colour of the initial states)
MethodColor(m) ==
    CASE m = "SGO-FIG" -> Scol
      [] m = "ACE" -> Acol
      [] m = "Muller1" -> Mcol
      [] m = "Muller2" -> Mcol2
      [] m = "Initial states" -> "lightsteelblue"

\* the method of each tick label, position by position
TickMethods ==
    IF script = "pk"
    THEN <<"Muller2", "Muller1", "SGO-FIG", "ACE", "Muller2", "Muller1", "SGO-FIG", "ACE",
           "Initial states">>
    ELSE <<"SGO-FIG", "ACE">>

\* the method whose results a data file holds
FileMethod(f) ==
    CASE f \in {"pk_model/ace_utils_18m.txt", "pk_model/ace_utils_ph2_18m.txt",
                "geo_model/ace_traces.txt"} -> "ACE"
      [] f \in {"pk_model/sgd_m1_utils_18m.txt", "pk_model/sgd_utils_ph2_18m.txt",
                "geo_model/sgd_traces.txt"} -> "SGO-FIG"
      [] f \in {"pk_model/muller_J1_utils_18m.txt",
                "pk_model/muller_J1_utils_ph2_18m.txt"} -> "Muller1"
      [] f \in {"pk_model/muller_J2_utils_18m.txt",
                "pk_model/muller_J2_utils_ph2_18m.txt"} -> "Muller2"
      [] f = "pk_model/init_utils.txt" -> "Initial states"

\* the colour list bp_cols of the running script
BpCols == (CHOOSE k \in 1..Len(Prog(script)) : Prog(script)[k].op = "facecolor")

\* C3: in a displayed boxplot there is one box per summary vector (9 in
\* pk_model, 2 in geo_model), box i has the colour bp_cols[i], and that colour
\* is the one of the method whose data file and tick label stand at position
\* i, whatever the files contain.
C3_Positional ==
    \A f \in ShownContents :
        f.boxes # <<>> =>
            /\ Len(f.boxes) = Len(TickMethods)
            /\ \A k \in 1..Len(f.boxes) :
                  /\ f.boxes[k].face = Prog(script)[BpCols].aux[k]
                  /\ f.boxes[k].face = MethodColor(TickMethods[k])
                  /\ Len(f.boxes[k].data) = 1
                  /\ FileMethod(env[f.boxes[k].data[1]].file) = TickMethods[k]

C3_Witness ==
    /\ script = "pk"
    /\ status = "done"
    /\ \E f \in PkUtilFiles : disk[f] = File(4, 1, 1)
    /\ \E f \in ShownContents : Len(f.boxes) = 9 /\ f.boxes[9].face = "lightsteelblue"

-----------------------------------------------------------------------------
(* C4: too few columns.                                                    *)

\* C4 as stated: no figure is displayed that was drawn from a file with fewer
\* columns than its plot call expects: 2 for the utility surface and for a
\* sweep scatter, 15 for a design scatter.
C4_FailFast ==
    \A f \in ShownContents :
        /\ \A c \in Elems(f.curves) : disk[c.file].cols >= 2
        /\ \A sc \in Elems(f.scatters) :
              sc.ys.cols >= (IF sc.sub = 0 THEN 2 ELSE NObs)

-----------------------------------------------------------------------------
(* C5: one figure per listed entry.                                        *)

\* the figures the sweep loop has displayed
SweepFigs == {k \in 1..Len(shown) : \E sc \in Elems(shown[k].content.scatters) : sc.sub = 0}

\* C5: when geo_model runs to its end, the sweep loop has displayed exactly as
\* many figures as the directory listing has entries, in whatever order the
\* entries were listed.
C5_FigurePerEntry ==
    (script = "geo" /\ status = "done") =>
        /\ Cardinality(SweepFigs) = Len(listing.entries)
        /\ Len(shown) = 2 + Len(listing.entries)

C5_Witness ==
    /\ script = "geo"
    /\ status = "done"
    /\ listing.entries = <<File(4, 2, 1), File(3, 3, 0)>>
    /\ Cardinality(SweepFigs) = 2

-----------------------------------------------------------------------------
(* C6: errors end the script.                                              *)

\* C6 as stated: when the script has failed on its k-th figure, the figures
\* displayed are exactly the first k - 1.
C6_AsStated ==
    status = "error" => ShownFigs = 1..(err.fig - 1)

\* C6 (amended): an error always ends the script: the state reached is
\* final, nothing more is loaded or displayed, the figure k the failing
\* statement works for is not displayed, and only figures before it have
\* been.  They are all of the figures before it, except when the load that
\* fails is the one of sgd_m1_trace_18m.txt at pk_model line 56: it is loaded
\* before the ACE trace figure is drawn, so that figure, which precedes the
\* SGD trace figure the file is for, has not been displayed either.
C6_NoRecovery ==
    /\ err # NoErr => status = "error"
    /\ status = "error" =>
          /\ err.fig >= 1
          /\ ~ ENABLED Next
          /\ ShownFigs \subseteq 1..(err.fig - 1)
          /\ \/ ShownFigs = 1..(err.fig - 1)
             \/ /\ script = "pk"
                /\ err.line = 56
                /\ ShownFigs = 1..(err.fig - 2)

C6_Witness ==
    /\ script = "pk"
    /\ status = "error"
    /\ err.fig = 4
    /\ err.line = 137
    /\ ShownFigs = {1, 2, 3}
    /\ Len(cur.scatters) = 4

-----------------------------------------------------------------------------
(* C7: label positions.  Coordinates are in tenths of an axis unit; the     *)
(* column with 0-based index c holds observation index c + 1 and is drawn   *)
(* at x = c + 1.                                                            *)

AllLabels == UNION {Elems(f.labels) : f \in Drawn}

\* C7 as stated: counting columns by observation index 1..15, the labels of
\* even columns are at y = 9.5 and those of odd columns at y = 6.2, and every
\* label is at the x position of its own column.
C7_AsStated ==
    \A l \in AllLabels :
        /\ l.y = (IF (l.col + 1) % 2 = 0 THEN 95 ELSE 62)
        /\ l.x = 10 * (l.col + 1)

\* C7 (amended): the labels alternate between two heights, and it is the
\* columns with an odd observation index (1, 3, ..., 15: the even 0-based
\* positions) that are labelled higher, at y = 9.5, and those with an even
\* observation index lower, at y = 6.2; no two adjacent columns get the same
\* height; every label starts 0.3 to the left of its own column, nearer to it
\* than to any other column.
C7_Alternating ==
    /\ \A l \in AllLabels :
          /\ l.col \in 0..14
          /\ l.y = (IF (l.col + 1) % 2 = 1 THEN 95 ELSE 62)
          /\ l.x = 10 * (l.col + 1) - 3
          /\ \A o \in 1..15 :
                o # l.col + 1 =>
                    (10 * o - l.x) * (10 * o - l.x)
                        > (10 * (l.col + 1) - l.x) * (10 * (l.col + 1) - l.x)
    /\ \A l1, l2 \in AllLabels :
          (l1.sub = l2.sub /\ l2.col = l1.col + 1) => l1.y # l2.y

C7_Witness ==
    /\ status = "done"
    /\ \E f \in ShownContents :
          \E l1, l2 \in Elems(f.labels) :
              /\ l1.sub = 1 /\ l1.col = 0 /\ l1.y = 95 /\ l1.x = 7
              /\ l2.sub = 4 /\ l2.col = 13 /\ l2.y = 62 /\ l2.x = 137

-----------------------------------------------------------------------------
(* C8: trace overlays.                                                     *)

\* the trace files drawn in figure f
TraceFiles(f) == {l.file : l \in Elems(f.lines)}

RowsDrawn(f, file) == {l.row : l \in {m \in Elems(f.lines) : m.file = file}}
ColoursOf(f, file) == {l.color : l \in {m \in Elems(f.lines) : m.file = file}}

-----------------------------------------------------------------------------
(* C9: who loads what.                                                     *)

-----------------------------------------------------------------------------
(* C10: the x matrix of the design scatters.                               *)

DesignScatters == UNION {{sc \in Elems(f.scatters) : sc.sub >= 1} : f \in Drawn}

\* C10: x is the 100 x 15 matrix with x[r][c] = c + 1, and a design scatter
\* is drawn only for a design matrix of shape exactly 100 x 15.
C10_ExactShape ==
    /\ ("x" \in DOMAIN env /\ script = "pk") =>
          /\ env["x"].shape = <<100, 15>>
          /\ \A r \in 1..100, c \in 1..15 : env["x"].data[r][c] = c
    /\ \A sc \in DesignScatters : sc.ys.shape = <<100, 15>>

\* What does hold of x and of the scatters: x has exactly 100 rows and 15
\* columns and x[r][c] = c + 1.  A design scatter is drawn exactly for design
\* arrays of 1500 elements, whatever their shape, because scatter flattens
\* both arguments; a 100 x 15 design has every value of column c plotted at
\* observation index c + 1.  (x is never reassigned and nothing drawn is
\* taken back, so both are inspected when the script has ended, normally or
\* in an error.)
XMatrixLemma ==
    status # "running" =>
    /\ ("x" \in DOMAIN env /\ script = "pk") =>
          /\ env["x"].shape = <<100, 15>>
          /\ Len(env["x"].data) = 100
          /\ \A r \in 1..100 :
                /\ Len(env["x"].data[r]) = 15
                /\ \A c \in 1..15 : env["x"].data[r][c] = c
    /\ \A sc \in DesignScatters :
          /\ Size(sc.ys) = 1500
          /\ sc.ys.shape = <<100, 15>> =>
                \A r \in 0..99, c \in 0..14 : ScatterX(env[sc.xs], sc.ys, r, c) = c + 1
    /\ \A k \in 1..Len(Prog(script)) :
          (Prog(script)[k].op = "scatter" /\ ExecutedStmt(k)
              /\ Size(env[Prog(script)[k].args[2]]) = 1500)
            => ~(status = "error" /\ pc = k)

XMatrixReached ==
    /\ status = "done"
    /\ \E sc \in DesignScatters : sc.ys.shape = <<150, 10>>
    /\ \E sc \in DesignScatters : sc.ys.shape = <<100, 15>> /\ sc.ys.pat = 0

====
